---------------------------- MODULE Spec2Model ----------------------------
(***************************************************************************)
(* Page classification samples: the embedding-similarity notebook          *)
(* (document-intelligence-embeddings.ipynb) and the vision notebook         *)
(* (openai.ipynb), with the accuracy computation and the result            *)
(* persistence they share.  One behaviour is one top-to-bottom run of one  *)
(* notebook in a fresh kernel.                                             *)
(*                                                                         *)
(* Embeddings are vectors of small integers.  Similarities, scores and     *)
(* the threshold are binary64 values, computed and compared as numpy and   *)
(* Python do.  The confidences of the vision notebook are held in          *)
(* hundredths.                                                             *)
(***************************************************************************)
EXTENDS Integers, Sequences, FiniteSets, TLC

VARIABLES
    strategy,                 \* which notebook runs: "embeddings" or "openai"
    pc,                       \* the cell / loop position of the run
    error,                    \* the exception that stopped the run ("" while none)
    expected,                 \* the human-authored expected Classifications
    classifications,          \* the category registry (list of dicts)
    pages_content,            \* extracted page texts (embeddings) / page images (openai)
    page_embeddings,          \* embeddings of the pages fetched so far
    similarity_threshold,     \* kernel name `similarity_threshold`
    document_classifications, \* the produced Classifications
    idx,                      \* classification loop: the index enumerate hands out next
    similarity,               \* kernel name `similarity`
    best_similarity,          \* kernel name `best_similarity`
    all_similarities,         \* kernel name `all_similarities`
    user_content,             \* openai: the content parts of the user message
    accuracy,                 \* the accuracy dict
    eval_idx,                 \* position of the accuracy loop
    classification_result,    \* the DataClassificationResult, once built
    json_text,                \* the serialized record, once to_json returned
    file,                     \* the result file: "absent", "empty", "partial", "complete"
    embed_calls,              \* history: texts passed to get_embedding, in call order
    sim_computed,             \* history: page indexes cosine_similarity was called for
    completion_calls,         \* history: requests sent to completions.parse
    completion,               \* openai: the response of completions.parse
    confidence                \* openai: what evaluate_confidence returned

vars == <<strategy, pc, error, expected, classifications, pages_content,
          page_embeddings, similarity_threshold, document_classifications, idx,
          similarity, best_similarity, all_similarities, user_content, accuracy,
          eval_idx, classification_result, json_text, file, embed_calls,
          sim_computed, completion_calls, completion, confidence>>

-----------------------------------------------------------------------------
(* Natural numbers of any size.  A binary64 significand has 53 bits and the
   exact product of two has 106, more than an integer of the model checker
   holds: a natural number is the sequence of its digits in base 2^15, lowest
   first, without a highest digit of zero (the empty sequence is 0). *)

LimbBits == 15
Base == 32768

RECURSIVE Pow2(_)
Pow2(k) == IF k = 0 THEN 1 ELSE 2 * Pow2(k - 1)

RECURSIVE NatOf(_)
NatOf(n) == IF n = 0 THEN <<>> ELSE <<n % Base>> \o NatOf(n \div Base)

RECURSIVE Trim(_)
Trim(a) ==
    IF a = <<>> \/ a[Len(a)] # 0 THEN a ELSE Trim(SubSeq(a, 1, Len(a) - 1))

Limb(a, i) == IF i <= Len(a) THEN a[i] ELSE 0

RECURSIVE NatAddFrom(_, _, _, _)
NatAddFrom(a, b, i, carry) ==
    IF i > Len(a) /\ i > Len(b)
    THEN IF carry = 0 THEN <<>> ELSE <<carry>>
    ELSE LET s == Limb(a, i) + Limb(b, i) + carry
         IN <<s % Base>> \o NatAddFrom(a, b, i + 1, s \div Base)

NatAdd(a, b) == NatAddFrom(a, b, 1, 0)

RECURSIVE NatSubFrom(_, _, _, _)
NatSubFrom(a, b, i, borrow) ==
    IF i > Len(a)
    THEN <<>>
    ELSE LET d == Limb(a, i) - Limb(b, i) - borrow
         IN <<IF d < 0 THEN d + Base ELSE d>>
               \o NatSubFrom(a, b, i + 1, IF d < 0 THEN 1 ELSE 0)

\* a - b, for a >= b
NatSub(a, b) == Trim(NatSubFrom(a, b, 1, 0))

RECURSIVE NatCmpFrom(_, _, _)
NatCmpFrom(a, b, i) ==
    IF i = 0 THEN 0
    ELSE IF a[i] < b[i] THEN -1
    ELSE IF a[i] > b[i] THEN 1
    ELSE NatCmpFrom(a, b, i - 1)

\* -1, 0 or 1 as a is less than, equal to or greater than b
NatCmp(a, b) ==
    IF Len(a) < Len(b) THEN -1
    ELSE IF Len(a) > Len(b) THEN 1
    ELSE NatCmpFrom(a, b, Len(a))

RECURSIVE NatMulSmallFrom(_, _, _, _)
NatMulSmallFrom(a, d, i, carry) ==
    IF i > Len(a)
    THEN IF carry = 0 THEN <<>> ELSE <<carry>>
    ELSE LET p == a[i] * d + carry
         IN <<p % Base>> \o NatMulSmallFrom(a, d, i + 1, p \div Base)

\* a * d, for a single digit d
NatMulSmall(a, d) == IF d = 0 THEN <<>> ELSE NatMulSmallFrom(a, d, 1, 0)

\* a * Base^k
ShiftLimbs(a, k) == IF a = <<>> THEN <<>> ELSE [i \in 1..k |-> 0] \o a

RECURSIVE NatMulFrom(_, _, _)
NatMulFrom(a, b, j) ==
    IF j > Len(b) THEN <<>>
    ELSE NatAdd(ShiftLimbs(NatMulSmall(a, b[j]), j - 1), NatMulFrom(a, b, j + 1))

NatMul(a, b) == NatMulFrom(a, b, 1)

\* a * 2^k
NatShiftLeft(a, k) ==
    ShiftLimbs(NatMulSmall(a, Pow2(k % LimbBits)), k \div LimbBits)

RECURSIVE NatDivSmallFrom(_, _, _, _)
NatDivSmallFrom(a, d, i, rem) ==
    IF i = 0 THEN <<>>
    ELSE LET cur == rem * Base + a[i]
         IN NatDivSmallFrom(a, d, i - 1, cur % d) \o <<cur \div d>>

\* floor(a / 2^k)
NatShiftRight(a, k) ==
    LET drop == k \div LimbBits
        rest == IF drop >= Len(a) THEN <<>> ELSE SubSeq(a, drop + 1, Len(a))
    IN Trim(NatDivSmallFrom(rest, Pow2(k % LimbBits), Len(rest), 0))

RECURSIVE BitLengthSmall(_)
BitLengthSmall(n) == IF n = 0 THEN 0 ELSE 1 + BitLengthSmall(n \div 2)

\* the number of binary digits of a
BitLength(a) ==
    IF a = <<>> THEN 0 ELSE (Len(a) - 1) * LimbBits + BitLengthSmall(a[Len(a)])

\* binary digit i of a, digit 0 being the lowest
NatBit(a, i) == (Limb(a, i \div LimbBits + 1) \div Pow2(i % LimbBits)) % 2

\* Long division and the square root go by digits of 5 bits.
DigitBits == 5
Radix == 32

\* i more digits of a division by d: qr is <<q, r>>, the quotient so far and
\* what is left of the dividend, r < d; the value is <<quotient, remainder>>
RECURSIVE NatQuotientFrom(_, _, _)
NatQuotientFrom(qr, d, i) ==
    IF i = 0 THEN qr
    ELSE LET q2 == NatMulSmall(qr[1], Radix)
             r2 == NatMulSmall(qr[2], Radix)
             t == CHOOSE u \in 0..(Radix - 1) :
                     /\ NatCmp(NatMulSmall(d, u), r2) <= 0
                     /\ NatCmp(NatMulSmall(d, u + 1), r2) > 0
         IN IF t = 0
            THEN NatQuotientFrom(<<q2, r2>>, d, i - 1)
            ELSE NatQuotientFrom(<<NatAdd(q2, <<t>>), NatSub(r2, NatMulSmall(d, t))>>,
                                 d, i - 1)

\* i more digits of floor(sqrt(n)), r being the digits above them
RECURSIVE NatSqrtFrom(_, _, _)
NatSqrtFrom(n, i, r) ==
    IF i = 0 THEN r
    ELSE LET r2 == NatMulSmall(r, Radix)
             Fits(c) ==
                 NatCmp(NatShiftLeft(NatMul(c, c), 2 * DigitBits * (i - 1)), n) <= 0
             t == CHOOSE u \in 0..(Radix - 1) :
                     /\ Fits(NatAdd(r2, NatOf(u)))
                     /\ ~Fits(NatAdd(r2, NatOf(u + 1)))
         IN IF t = 0
            THEN NatSqrtFrom(n, i - 1, r2)
            ELSE NatSqrtFrom(n, i - 1, NatAdd(r2, <<t>>))

-----------------------------------------------------------------------------
(* binary64 (numpy float64, Python float): zero, or the value
   (-1)^neg * m * 2^(e - 52) whose significand m has exactly 53 binary digits,
   so that e is the exponent of its highest digit.  Every operation returns
   the exact result rounded to the nearest such value, ties to the even
   significand.  The exponent range is not represented: the values of the
   runs are far from overflow and underflow. *)

Precision == 53

Zero == [neg |-> FALSE, e |-> 0, m |-> <<>>]

\* the exponent of the lowest digit of the significand of x
LowExp(x) == x.e - (Precision - 1)

\* (-1)^neg * n * 2^e, for n of at most 53 digits
Canonical(neg, n, e) ==
    IF n = <<>> THEN Zero
    ELSE [neg |-> neg, e |-> e + BitLength(n) - 1,
          m |-> NatShiftLeft(n, Precision - BitLength(n))]

\* (-1)^neg * n * 2^e rounded to nearest, ties to even
Round(neg, n, e) ==
    IF BitLength(n) <= Precision
    THEN Canonical(neg, n, e)
    ELSE LET k == BitLength(n) - Precision
             q == NatShiftRight(n, k)
             half == NatBit(n, k - 1) = 1
             below == NatShiftLeft(NatShiftRight(n, k - 1), k - 1) # n
             up == half /\ (below \/ NatBit(q, 0) = 1)
             q2 == IF up THEN NatAdd(q, <<1>>) ELSE q
         IN IF BitLength(q2) > Precision
            THEN Canonical(neg, NatShiftRight(q2, 1), e + k + 1)
            ELSE Canonical(neg, q2, e + k)

\* float(n) for an integer n
FloatOfInt(n) == Round(n < 0, NatOf(IF n < 0 THEN -n ELSE n), 0)

One == FloatOfInt(1)

\* x * y
FMul(x, y) ==
    IF x = Zero \/ y = Zero THEN Zero
    ELSE Round(x.neg # y.neg, NatMul(x.m, y.m), LowExp(x) + LowExp(y))

\* x + y
FAdd(x, y) ==
    IF x = Zero THEN y
    ELSE IF y = Zero THEN x
    ELSE LET e == IF x.e < y.e THEN LowExp(x) ELSE LowExp(y)
             mx == NatShiftLeft(x.m, LowExp(x) - e)
             my == NatShiftLeft(y.m, LowExp(y) - e)
         IN IF x.neg = y.neg THEN Round(x.neg, NatAdd(mx, my), e)
            ELSE IF NatCmp(mx, my) >= 0 THEN Round(x.neg, NatSub(mx, my), e)
            ELSE Round(y.neg, NatSub(my, mx), e)

\* the digits of a quotient or a root that are worked out: 60 binary digits
QuotientDigits == 12

\* x / y, for y # 0: the quotient of the significands to 60 digits or more,
\* and one digit more that says whether anything is left below
FDiv(x, y) ==
    IF x = Zero THEN Zero
    ELSE IF y = One THEN x
    ELSE LET first == IF NatCmp(x.m, y.m) >= 0 THEN 1 ELSE 0
             qr == NatQuotientFrom(IF first = 1 THEN <<<<1>>, NatSub(x.m, y.m)>>
                                                 ELSE <<<<>>, x.m>>,
                                   y.m, QuotientDigits)
             n == NatAdd(NatMulSmall(qr[1], 2), NatOf(IF qr[2] = <<>> THEN 0 ELSE 1))
         IN Round(x.neg # y.neg, n,
                  LowExp(x) - LowExp(y) - DigitBits * QuotientDigits - 1)

\* sqrt(x), for x >= 0: the root of the significand, shifted to 110 or 111
\* digits, and one digit more that says whether anything is left below
FSqrt(x) ==
    IF x = Zero THEN Zero
    ELSE LET k0 == Precision + 4
             k == IF (LowExp(x) - k0) % 2 = 0 THEN k0 ELSE k0 + 1
             n == NatShiftLeft(x.m, k)
             r == NatSqrtFrom(n, QuotientDigits, <<>>)
             n2 == NatAdd(NatMulSmall(r, 2), NatOf(IF NatMul(r, r) = n THEN 0 ELSE 1))
         IN Round(FALSE, n2, (LowExp(x) - k) \div 2 - 1)

\* |x| < |y|
MagnitudeLess(x, y) ==
    IF y = Zero THEN FALSE
    ELSE IF x = Zero THEN TRUE
    ELSE IF x.e # y.e THEN x.e < y.e
    ELSE NatCmp(x.m, y.m) < 0

\* x < y
FLess(x, y) ==
    IF x.neg # y.neg THEN x.neg
    ELSE IF x.neg THEN MagnitudeLess(y, x)
    ELSE MagnitudeLess(x, y)

\* x <= y
FLessEq(x, y) == ~FLess(y, x)

\* The value of the literal num/den (0.4 is Decimal(4, 10)): the quotient
\* rounded once, as the conversion of a decimal literal is.
Decimal(num, den) == FDiv(FloatOfInt(num), FloatOfInt(den))

-----------------------------------------------------------------------------
(* Bounds and input sets *)

MaxPages == 3

\* Longest page list the completion provider's parsed response may hold.
MaxParsed == 2

Unclassified == "Unclassified"

\* The registry: names and keyword texts (two categories keep the runs small).
CategoryNames == <<"A", "B">>
CategoryKeywords == <<"x y", "p q">>

\* Embedding vectors the provider may return, all of norm 5.
Vectors == {<<3, 4>>, <<0, 5>>}

\* What get_embedding may return for a page, whatever its text: a vector, or
\* the empty embedding.
PageEmbeddings == Vectors \cup {<<>>}
CategoryVectors == {<<3, 4>>, <<4, 3>>}

\* Page texts: an empty page and a page with text.
Texts == {"", "x y x"}

\* similarity_threshold = 0.4
DefaultThreshold == Decimal(4, 10)

\* Thresholds: the notebook's 0.4, and 0.96, which <<3,4>> against <<4,3>>
\* meets exactly.
Thresholds == {DefaultThreshold, Decimal(96, 100)}

\* Embeddings of the runs that exercise the similarity itself: norms 5, 10,
\* sqrt(2) and 0.
CosineVectors == {<<3, 4>>, <<4, 3>>, <<6, 8>>, <<1, 1>>, <<0, 0>>}

\* Page texts of the mocked runs.
MockTexts == {"x y x", "p q p", ""}

\* Thresholds of the mocked runs.
MockThresholds == {DefaultThreshold, Decimal(95, 100)}

\* The mocked get_embedding of the example: the answer is fixed per text, vectors
\* of norm 10 whose cosines are 0.9 and 0.1, and the empty embedding for the
\* page without text.
MockEmbedding(text) ==
    CASE text = "x y"   -> <<10, 0, 0, 0>>
      [] text = "p q"   -> <<0, 10, 0, 0>>
      [] text = "x y x" -> <<9, 1, 3, 3>>
      [] text = "p q p" -> <<1, 9, 3, 3>>
      [] OTHER          -> <<>>

\* Every embedding of the runs.
Embeddings ==
    (Vectors \cup CategoryVectors \cup CosineVectors
        \cup {MockEmbedding(text) :
                 text \in MockTexts \cup {CategoryKeywords[j] : j \in 1..Len(CategoryKeywords)}})
    \ {<<>>}

-----------------------------------------------------------------------------
(* Python names that may be unbound, dict keys and numbers *)

Unbound == [bound |-> FALSE, val |-> <<>>]
Bound(v) == [bound |-> TRUE, val |-> <<v>>]
ValueOf(n) == n.val[1]

IntKey(n) == [kind |-> "int", n |-> n, s |-> ""]
StrKey(s) == [kind |-> "str", n |-> 0, s |-> s]

RECURSIVE GCD(_, _)
GCD(a, b) == IF b = 0 THEN a ELSE GCD(b, a % b)

IntVal(n) == [kind |-> "int", num |-> n, den |-> 1]
\* a / b for b > 0, as the value it denotes (lowest terms)
TrueDiv(a, b) == [kind |-> "float", num |-> a \div GCD(a, b), den |-> b \div GCD(a, b)]


-----------------------------------------------------------------------------
(* The data model: Classification and Classifications (modules.classification) *)

Classification(page_number, classification, sim, all_sims) ==
    [page_number |-> page_number, classification |-> classification,
     similarity |-> sim, all_similarities |-> all_sims]

\* Whether a Classifications object has an entry for page_number.
HasClassification(cls, page_number) ==
    \E i \in 1..Len(cls) : cls[i].page_number = page_number

\* Classifications.get_classification(page_number): the first entry for the page.
\* Used where HasClassification holds; a lookup that finds nothing raises.
get_classification(cls, page_number) ==
    cls[CHOOSE i \in 1..Len(cls) :
            /\ cls[i].page_number = page_number
            /\ \A j \in 1..(i - 1) : cls[j].page_number # page_number]

\* Classifications.to_dict(): the list of entries under the key "classifications".
to_dict(cls) == [classifications |-> cls]

-----------------------------------------------------------------------------
(* Cosine similarity (sklearn.metrics.pairwise.cosine_similarity), binary64 *)

RECURSIVE AsFloatsFrom(_, _)
AsFloatsFrom(a, i) ==
    IF i > Len(a) THEN <<>> ELSE <<FloatOfInt(a[i])>> \o AsFloatsFrom(a, i + 1)

\* np.array(a): the components as binary64 values
AsFloats(a) == AsFloatsFrom(a, 1)

RECURSIVE DotFrom(_, _, _, _)
DotFrom(x, y, i, acc) ==
    IF i > Len(x) THEN acc
    ELSE DotFrom(x, y, i + 1, FAdd(acc, FMul(x[i], y[i])))

\* the sum of the products x[i] * y[i], accumulated from 0.0 in index order
Dot(x, y) == DotFrom(x, y, 1, Zero)

\* row_norms: the square root of the sum of squares
Norm(x) == FSqrt(Dot(x, x))

RECURSIVE DivideFrom(_, _, _)
DivideFrom(x, scale, i) ==
    IF i > Len(x) THEN <<>> ELSE <<FDiv(x[i], scale)>> \o DivideFrom(x, scale, i + 1)

\* normalize: the row divided by its norm, a zero norm being replaced by 1.0
normalize(x) ==
    LET norm == Norm(x)
    IN DivideFrom(x, IF norm = Zero THEN One ELSE norm, 1)

\* Rows are normalised first, a zero row staying zero, so a zero norm gives 0.
cosine_similarity(a, b) == Dot(normalize(AsFloats(a)), normalize(AsFloats(b)))

\* The norms of the embeddings of the runs, each computed once: the pairs
\* <<a, Norm(a)>>, and the function they make.
NormTable == {<<a, Norm(AsFloats(a))>> : a \in Embeddings}
NormValues == [a \in Embeddings |-> (CHOOSE t \in NormTable : t[1] = a)[2]]

\* cosine_similarity over the embeddings of the runs, each value computed once:
\* the pairs <<<<a, b>>, cosine_similarity(a, b)>> for vectors of one length, and
\* the function they make.
CosinePairs == {q \in Embeddings \X Embeddings : Len(q[1]) = Len(q[2])}
CosineTable == {<<p, cosine_similarity(p[1], p[2])>> : p \in CosinePairs}
CosineValues == [p \in CosinePairs |-> (CHOOSE t \in CosineTable : t[1] = p)[2]]

-----------------------------------------------------------------------------
(* The classification loop body, embeddings notebook lines 384-412 *)

\* `not page_emb`: the embedding is an empty list
IsEmptyEmbedding(page_emb) == page_emb = <<>>

\* cosine_similarity(page_vector, classification_matrix)[0]
Similarities(page_emb, cats) ==
    [j \in 1..Len(cats) |-> CosineValues[<<page_emb, ValueOf(cats[j].embedding)>>]]

\* np.argmax (mutant: of equal maxima the last one is taken)
ArgMaxLast(sims) ==
    CHOOSE j \in DOMAIN sims :
        /\ \A k \in DOMAIN sims : FLessEq(sims[k], sims[j])
        /\ \A k \in DOMAIN sims : k > j => FLess(sims[k], sims[j])

\* np.argmax: the first index holding the maximum
ArgMax(sims) ==
    CHOOSE i \in 1..Len(sims) :
        /\ \A j \in 1..Len(sims) : FLessEq(sims[j], sims[i])
        /\ \A j \in 1..(i - 1) : FLess(sims[j], sims[i])

\* best_similarity (mutant: the first category's similarity, not the best)
BestSimilarityFirst(sims) == sims[1]

\* best_similarity = similarities[best_match_idx]
BestSimilarity(sims) == sims[ArgMax(sims)]

\* str(sim)
Str(x) == [repr |-> x]

\* the all_similarities list (mutant: entries in descending order of similarity)
AllSimilaritiesByScore(cats, sims) ==
    LET n == Len(cats)
        order == CHOOSE f \in [1..n -> 1..n] :
                    /\ \A a, b \in 1..n : a # b => f[a] # f[b]
                    /\ \A a, b \in 1..n :
                          a < b => \/ FLess(sims[f[b]], sims[f[a]])
                                   \/ sims[f[a]] = sims[f[b]] /\ f[a] < f[b]
    IN [j \in 1..n |->
          [classification |-> cats[order[j]].classification,
           similarity |-> Str(sims[order[j]])]]

\* the all_similarities list built by the zip loop
AllSimilarities(cats, sims) ==
    [j \in 1..Len(cats) |->
        [classification |-> cats[j].classification, similarity |-> Str(sims[j])]]

\* the threshold test (mutant: strict comparison)
MeetsThresholdStrict(best, threshold) == FLess(threshold, best)

\* best_similarity >= similarity_threshold
MeetsThreshold(best, threshold) == FLessEq(threshold, best)

\* the label chosen for a page with a non-empty embedding
LabelFor(best, best_match_idx, cats, threshold) ==
    IF MeetsThreshold(best, threshold)
    THEN cats[best_match_idx].classification
    ELSE Unclassified

\* the entry appended for page idx (mutant: 1-based page numbers)
NewClassificationOneBased(i, label, sim, all_sims) ==
    Classification(i + 1, label, sim, all_sims)

\* Classification(page_number=idx, classification=..., similarity=best_similarity,
\*                all_similarities=all_similarities)
NewClassification(i, label, sim, all_sims) ==
    Classification(i, label, sim, all_sims)

-----------------------------------------------------------------------------
(* The accuracy computation, same code in both notebooks *)

EmptyDict == [k \in {} |-> 0]

\* d[k] = v (mutant: a key already in the dict keeps its value)
DictSetDefault(d, k, v) == [x \in (DOMAIN d) \cup {k} |-> IF x \in DOMAIN d THEN d[x] ELSE v]

\* d[k] = v: the key is inserted, or its value replaced
DictSet(d, k, v) == [x \in (DOMAIN d) \cup {k} |-> IF x = k THEN v ELSE d[x]]

RECURSIVE SumOver(_, _)
SumOver(d, keys) ==
    IF keys = {} THEN 0
    ELSE LET k == CHOOSE x \in keys : TRUE
         IN d[k].num + SumOver(d, keys \ {k})

\* sum(accuracy.values()), while every value is an int
SumValues(d) == SumOver(d, DOMAIN d)

\* the 0/1 indicator (mutant: inverted comparison)
IndicatorInverted(expected_classification, actual_classification) ==
    IF expected_classification # actual_classification THEN 1 ELSE 0

\* 1 if expected_classification == actual_classification else 0
Indicator(expected_classification, actual_classification) ==
    IF expected_classification = actual_classification THEN 1 ELSE 0

\* the loop body's outcome (mutant: a missing expected page scores 0)
AccuracyEntryDefaulting(exp, entry) ==
    IF HasClassification(exp, entry.page_number)
    THEN [raised |-> "",
          value |-> Indicator(get_classification(exp, entry.page_number).classification,
                              entry.classification)]
    ELSE [raised |-> "", value |-> 0]

\* the loop body's outcome (mutant: the similarity is compared along with the label)
AccuracyEntryComparingScores(exp, entry) ==
    IF HasClassification(exp, entry.page_number)
    THEN [raised |-> "",
          value |-> LET expected_entry == get_classification(exp, entry.page_number)
                    IN IF expected_entry.similarity = entry.similarity
                       THEN Indicator(expected_entry.classification, entry.classification)
                       ELSE 0]
    ELSE [raised |-> "NotFoundError", value |-> 0]

\* the loop body's outcome for one entry of the actual set: the indicator, or
\* the error of the failed lookup, which the loop does not catch
AccuracyEntry(exp, entry) ==
    IF HasClassification(exp, entry.page_number)
    THEN [raised |-> "",
          value |-> Indicator(get_classification(exp, entry.page_number).classification,
                              entry.classification)]
    ELSE [raised |-> "NotFoundError", value |-> 0]

\* overall (mutant: computed as if the overall key were already in the dict)
OverallCountingItself(acc) ==
    TrueDiv(SumValues(acc), Cardinality(DOMAIN acc) + 1)

\* overall = sum(accuracy.values()) / len(accuracy), for a non-empty dict
Overall(acc) == TrueDiv(SumValues(acc), Cardinality(DOMAIN acc))

-----------------------------------------------------------------------------
(* Inputs of a run *)

\* Label patterns of an expected set: every page "A", or "A" and "B" alternating.
ExpectedLabel(pattern, i) ==
    IF pattern = "allA" \/ i % 2 = 1 THEN "A" ELSE "B"

\* An expected set of n pages numbered from origin, all with similarity=1 and
\* all_similarities=[] as both notebooks write them.
ExpectedSet(origin, n, pattern) ==
    [i \in 1..n |-> Classification(origin + i - 1, ExpectedLabel(pattern, i), One, <<>>)]

ExpectedSets(origin) ==
    {ExpectedSet(origin, n, pattern) :
        n \in {MaxPages - 1, MaxPages}, pattern \in {"allA", "alternating"}}

\* Sequences over S of length 0..n
RECURSIVE SeqsUpTo(_, _)
SeqsUpTo(S, n) ==
    IF n = 0 THEN {<<>>}
    ELSE SeqsUpTo(S, n - 1) \cup
         {Append(q, x) : q \in {r \in SeqsUpTo(S, n - 1) : Len(r) = n - 1}, x \in S}

\* Documents of up to n pages, at most one of them without text, at any position.
Documents(n) ==
    {d \in SeqsUpTo(Texts, n) : Cardinality({i \in 1..Len(d) : d[i] = ""}) <= 1}

\* The registry as the notebooks define it: no embedding key yet.
Registry ==
    [j \in 1..Len(CategoryNames) |->
        [classification |-> CategoryNames[j], keywords |-> CategoryKeywords[j],
         embedding |-> Unbound]]

Failed(exception) == pc' = "failed" /\ error' = exception

-----------------------------------------------------------------------------
(* The embeddings notebook *)

InitEmbeddings ==
    /\ strategy = "embeddings"
    /\ pc = "embed_classifications"
    /\ error = ""
    /\ expected \in ExpectedSets(0)
    /\ classifications = Registry
    /\ pages_content \in Documents(MaxPages)
    /\ page_embeddings = <<>>
    /\ similarity_threshold \in Thresholds
    /\ document_classifications = <<>>
    /\ idx = 0
    /\ similarity = Unbound
    /\ best_similarity = Unbound
    /\ all_similarities = Unbound
    /\ user_content = <<>>
    /\ accuracy = EmptyDict
    /\ eval_idx = 0
    /\ classification_result = Unbound
    /\ json_text = Unbound
    /\ file = "absent"
    /\ embed_calls = <<>>
    /\ sim_computed = {}
    /\ completion_calls = <<>>
    /\ completion = Unbound
    /\ confidence = Unbound

\* Index of the next category without an embedding (Len + 1 when all have one).
NextCategory ==
    Cardinality({j \in 1..Len(classifications) : classifications[j].embedding.bound}) + 1

\* One iteration of the category embedding loop (lines 329-331).
EmbedClassificationFrom(vectors) ==
    /\ pc = "embed_classifications"
    /\ NextCategory <= Len(classifications)
    /\ LET j == NextCategory
           combined_text == classifications[j].keywords
       IN /\ embed_calls' = Append(embed_calls, combined_text)
          /\ \E e \in vectors :
                classifications' = [classifications EXCEPT ![j].embedding = Bound(e)]
    /\ UNCHANGED <<idx, strategy, pc, error, expected, pages_content, page_embeddings,
                   similarity_threshold, document_classifications, similarity,
                   best_similarity, all_similarities, user_content, accuracy, eval_idx,
                   classification_result, json_text, file, sim_computed,
                   completion_calls,
                   completion, confidence>>

\* the category embedding loop (mutant: every category is requested twice)
EmbedClassificationTwice ==
    /\ pc = "embed_classifications"
    /\ NextCategory <= Len(classifications)
    /\ LET j == NextCategory
           combined_text == classifications[j].keywords
       IN /\ embed_calls' = embed_calls \o <<combined_text, combined_text>>
          /\ \E e \in CategoryVectors :
                classifications' = [classifications EXCEPT ![j].embedding = Bound(e)]
    /\ UNCHANGED <<idx, strategy, pc, error, expected, pages_content, page_embeddings,
                   similarity_threshold, document_classifications, similarity,
                   best_similarity, all_similarities, user_content, accuracy, eval_idx,
                   classification_result, json_text, file, sim_computed,
                   completion_calls, completion, confidence>>

EmbedClassification == EmbedClassificationFrom(CategoryVectors)

\* The category loop is exhausted; the page embedding cell starts (lines 349-350).
EmbedClassificationsDone ==
    /\ pc = "embed_classifications"
    /\ NextCategory > Len(classifications)
    /\ pc' = "embed_pages"
    /\ page_embeddings' = <<>>
    /\ UNCHANGED <<idx, strategy, error, expected, classifications, pages_content,
                   similarity_threshold, document_classifications, similarity,
                   best_similarity, all_similarities, user_content, accuracy, eval_idx,
                   classification_result, json_text, file, embed_calls, sim_computed,
                   completion_calls,
                   completion, confidence>>

\* One iteration of the page embedding loop (lines 351-353): whatever
\* get_embedding returns for the text, one of embeddings, is appended.
EmbedPageFrom(embeddings) ==
    /\ pc = "embed_pages"
    /\ Len(page_embeddings) < Len(pages_content)
    /\ LET text == pages_content[Len(page_embeddings) + 1]
       IN /\ embed_calls' = Append(embed_calls, text)
          /\ \E e \in embeddings :
                page_embeddings' = Append(page_embeddings, e)
    /\ UNCHANGED <<idx, strategy, pc, error, expected, classifications, pages_content,
                   similarity_threshold, document_classifications, similarity,
                   best_similarity, all_similarities, user_content, accuracy, eval_idx,
                   classification_result, json_text, file, sim_computed,
                   completion_calls,
                   completion, confidence>>

EmbedPage == EmbedPageFrom(PageEmbeddings)

\* get_embedding raising (mutant: the error is swallowed and the call made again)
EmbeddingFailsRetried ==
    /\ \/ pc = "embed_classifications" /\ NextCategory <= Len(classifications)
          /\ embed_calls' = Append(embed_calls, classifications[NextCategory].keywords)
       \/ pc = "embed_pages" /\ Len(page_embeddings) < Len(pages_content)
          /\ embed_calls' = Append(embed_calls, pages_content[Len(page_embeddings) + 1])
    /\ UNCHANGED <<idx, strategy, pc, error, expected, classifications, pages_content,
                   page_embeddings, similarity_threshold, document_classifications,
                   similarity, best_similarity, all_similarities, user_content,
                   accuracy, eval_idx, classification_result, json_text, file,
                   sim_computed, completion_calls,
                   completion, confidence>>

\* get_embedding raises (lines 305-308): the error leaves the cell uncaught.
EmbeddingFails ==
    /\ \/ pc = "embed_classifications" /\ NextCategory <= Len(classifications)
          /\ embed_calls' = Append(embed_calls, classifications[NextCategory].keywords)
       \/ pc = "embed_pages" /\ Len(page_embeddings) < Len(pages_content)
          /\ embed_calls' = Append(embed_calls, pages_content[Len(page_embeddings) + 1])
    /\ Failed("ProviderError")
    /\ UNCHANGED <<idx, strategy, expected, classifications, pages_content, page_embeddings,
                   similarity_threshold, document_classifications, similarity,
                   best_similarity, all_similarities, user_content, accuracy, eval_idx,
                   classification_result, json_text, file, sim_computed,
                   completion_calls,
                   completion, confidence>>

\* The page loop is exhausted; the classification cell starts (lines 377-383).
EmbedPagesDone ==
    /\ pc = "embed_pages"
    /\ Len(page_embeddings) = Len(pages_content)
    /\ pc' = "classify"
    /\ document_classifications' = <<>>
    /\ idx' = 0
    /\ UNCHANGED <<strategy, error, expected, classifications, pages_content,
                   page_embeddings, similarity_threshold, similarity, best_similarity,
                   all_similarities, user_content, accuracy, eval_idx,
                   classification_result, json_text, file, embed_calls, sim_computed,
                   completion_calls,
                   completion, confidence>>

\* One iteration of the classification loop (lines 384-412).  The empty branch
\* binds `classification` and `similarity` only; the append reads
\* best_similarity and all_similarities, which hold what the last page with an
\* embedding left there, and are unbound names before the first such page.
ClassifyPage ==
    /\ pc = "classify"
    /\ idx < Len(page_embeddings)
    /\ LET page_emb == page_embeddings[idx + 1]
       IN IF IsEmptyEmbedding(page_emb)
          THEN /\ similarity' = Bound(Zero)
               /\ UNCHANGED <<best_similarity, all_similarities, sim_computed>>
               /\ IF best_similarity.bound /\ all_similarities.bound
                  THEN /\ document_classifications' =
                            Append(document_classifications,
                                   NewClassification(idx, Unclassified,
                                                     ValueOf(best_similarity),
                                                     ValueOf(all_similarities)))
                       /\ idx' = idx + 1
                       /\ UNCHANGED <<pc, error>>
                  ELSE /\ Failed("NameError")
                       /\ UNCHANGED <<document_classifications, idx>>
          ELSE LET similarities == Similarities(page_emb, classifications)
                   best_match_idx == ArgMax(similarities)
                   best == BestSimilarity(similarities)
                   all_sims == AllSimilarities(classifications, similarities)
               IN /\ sim_computed' = sim_computed \cup {idx}
                  /\ best_similarity' = Bound(best)
                  /\ all_similarities' = Bound(all_sims)
                  /\ document_classifications' =
                        Append(document_classifications,
                               NewClassification(idx,
                                   LabelFor(best, best_match_idx, classifications,
                                            similarity_threshold),
                                   best, all_sims))
                  /\ idx' = idx + 1
                  /\ UNCHANGED <<pc, error, similarity>>
    /\ UNCHANGED <<strategy, expected, classifications, pages_content, page_embeddings,
                   similarity_threshold, user_content, accuracy, eval_idx,
                   classification_result, json_text, file, embed_calls,
                   completion_calls,
                   completion, confidence>>

\* The classification loop is exhausted; the accuracy cell starts (line 430).
ClassifyDone ==
    /\ pc = "classify"
    /\ idx = Len(page_embeddings)
    /\ pc' = "accuracy"
    /\ accuracy' = EmptyDict
    /\ eval_idx' = 0
    /\ UNCHANGED <<idx, strategy, error, expected, classifications, pages_content,
                   page_embeddings, similarity_threshold, document_classifications,
                   similarity, best_similarity, all_similarities, user_content,
                   classification_result, json_text, file, embed_calls, sim_computed,
                   completion_calls,
                   completion, confidence>>

-----------------------------------------------------------------------------
(* The accuracy cell (embeddings lines 430-439, openai lines 329-338) *)

\* One iteration of the accuracy loop.
AccuracyPage ==
    /\ pc = "accuracy"
    /\ eval_idx < Len(document_classifications)
    /\ LET entry == document_classifications[eval_idx + 1]
           outcome == AccuracyEntry(expected, entry)
       IN IF outcome.raised # ""
          THEN /\ Failed(outcome.raised)
               /\ UNCHANGED <<accuracy, eval_idx>>
          ELSE /\ accuracy' = DictSet(accuracy, IntKey(entry.page_number),
                                      IntVal(outcome.value))
               /\ eval_idx' = eval_idx + 1
               /\ UNCHANGED <<pc, error>>
    /\ UNCHANGED <<idx, strategy, expected, classifications, pages_content, page_embeddings,
                   similarity_threshold, document_classifications, similarity,
                   best_similarity, all_similarities, user_content,
                   classification_result, json_text, file, embed_calls, sim_computed,
                   completion_calls,
                   completion, confidence>>

\* overall (mutant: an empty report gets overall 0 instead of the division)
AccuracyOverallGuarded ==
    /\ pc = "accuracy"
    /\ eval_idx = Len(document_classifications)
    /\ accuracy' = DictSet(accuracy, StrKey("overall"),
                           IF DOMAIN accuracy = {} THEN TrueDiv(0, 1)
                           ELSE Overall(accuracy))
    /\ pc' = "build_result"
    /\ UNCHANGED <<idx, strategy, error, expected, classifications, pages_content,
                   page_embeddings, similarity_threshold, document_classifications,
                   similarity, best_similarity, all_similarities, user_content, eval_idx,
                   classification_result, json_text, file, embed_calls, sim_computed,
                   completion_calls, completion, confidence>>

\* After the loop: overall = sum(...) / len(accuracy); accuracy['overall'] = overall.
AccuracyOverall ==
    /\ pc = "accuracy"
    /\ eval_idx = Len(document_classifications)
    /\ IF DOMAIN accuracy = {}
       THEN /\ Failed("ZeroDivisionError")
            /\ UNCHANGED accuracy
       ELSE /\ accuracy' = DictSet(accuracy, StrKey("overall"), Overall(accuracy))
            /\ pc' = "build_result"
            /\ UNCHANGED error
    /\ UNCHANGED <<idx, strategy, expected, classifications, pages_content, page_embeddings,
                   similarity_threshold, document_classifications, similarity,
                   best_similarity, all_similarities, user_content, eval_idx,
                   classification_result, json_text, file, embed_calls, sim_computed,
                   completion_calls,
                   completion, confidence>>

-----------------------------------------------------------------------------
(* Result persistence (embeddings lines 524-531, openai lines 437-444) *)

\* The name a JSON object gives a dict key: a string stays, an int becomes its
\* decimal text (0 -> "0").
JsonName(k) == IF k.kind = "int" THEN StrKey(ToString(k.n)) ELSE k

\* A dict as a JSON object: the same values under the names of the keys.
JsonObject(d) ==
    [name \in {JsonName(k) : k \in DOMAIN d} |->
        d[CHOOSE k \in DOMAIN d : JsonName(k) = name]]

\* DataClassificationResult.to_json: the record as a JSON document. Lists,
\* strings and numbers are written as they are, the accuracy dict as an object.
to_json(record) ==
    [json |-> [classification |-> record.classification,
               accuracy |-> JsonObject(record.accuracy),
               execution_time |-> record.execution_time]]

\* json.loads: the value a JSON document denotes; an object gives a dict whose
\* keys are the names, which are strings.
json_loads(text) == text.json

\* An undefined confidence (nan) and a defined one.
NaN == [kind |-> "nan"]
Float(x) == [kind |-> "float", value |-> x]

\* evaluate_confidence(document_classifications.to_dict(), completion.choices[0]):
\* one confidence per entry, from the log-probability data of the entry's label;
\* undefined where there is no usable data.
evaluate_confidence(classification_dict, choice) ==
    [i \in 1..Len(classification_dict.classifications) |->
        [page_number |-> classification_dict.classifications[i].page_number,
         confidence |-> IF choice.logprobs[i].bound
                        THEN Float(ValueOf(choice.logprobs[i]))
                        ELSE NaN]]

\* the evaluate_confidence call (mutant: undefined confidences are stored as 0)
EvaluateConfidenceZeroFilled ==
    /\ pc = "build_result"
    /\ strategy = "openai"
    /\ ~confidence.bound
    /\ LET report == evaluate_confidence(to_dict(document_classifications),
                                         ValueOf(completion))
       IN confidence' =
             Bound([i \in 1..Len(report) |->
                      [report[i] EXCEPT !.confidence = IF @ = NaN THEN Float(0) ELSE @]])
    /\ UNCHANGED <<idx, strategy, pc, error, expected, classifications, pages_content,
                   page_embeddings, similarity_threshold, document_classifications,
                   similarity, best_similarity, all_similarities, user_content,
                   accuracy, eval_idx, classification_result, json_text, file,
                   embed_calls, sim_computed, completion_calls, completion>>

\* confidence = evaluate_confidence(...), first statement of the persistence cell
\* of the vision notebook (lines 426-427).
EvaluateConfidence ==
    /\ pc = "build_result"
    /\ strategy = "openai"
    /\ ~confidence.bound
    /\ confidence' = Bound(evaluate_confidence(to_dict(document_classifications),
                                               ValueOf(completion)))
    /\ UNCHANGED <<idx, strategy, pc, error, expected, classifications, pages_content,
                   page_embeddings, similarity_threshold, document_classifications,
                   similarity, best_similarity, all_similarities, user_content,
                   accuracy, eval_idx, classification_result, json_text, file,
                   embed_calls, sim_computed, completion_calls, completion>>

\* classification_result = DataClassificationResult(classification=..., ...)
BuildResult ==
    /\ pc = "build_result"
    /\ strategy = "openai" => confidence.bound
    /\ classification_result' =
          Bound([classification |-> to_dict(document_classifications),
                 accuracy |-> accuracy,
                 execution_time |-> "total_elapsed"])
    /\ pc' = "open_file"
    /\ UNCHANGED <<idx, strategy, error, expected, classifications, pages_content,
                   page_embeddings, similarity_threshold, document_classifications,
                   similarity, best_similarity, all_similarities, user_content,
                   accuracy, eval_idx, json_text, file, embed_calls, sim_computed,
                   completion_calls,
                   completion, confidence>>

\* with open(path, "w") as f: the file is created, or truncated, empty.
OpenFile ==
    /\ pc = "open_file"
    /\ file' = "empty"
    /\ pc' = "to_json"
    /\ UNCHANGED <<idx, strategy, error, expected, classifications, pages_content,
                   page_embeddings, similarity_threshold, document_classifications,
                   similarity, best_similarity, all_similarities, user_content,
                   accuracy, eval_idx, classification_result, json_text, embed_calls,
                   sim_computed, completion_calls,
                   completion, confidence>>

\* open raises (no such directory, no permission): nothing is created.
OpenFileFails ==
    /\ pc = "open_file"
    /\ Failed("OSError")
    /\ UNCHANGED <<idx, strategy, expected, classifications, pages_content,
                   page_embeddings, similarity_threshold, document_classifications,
                   similarity, best_similarity, all_similarities, user_content,
                   accuracy, eval_idx, classification_result, json_text, file,
                   embed_calls, sim_computed, completion_calls,
                   completion, confidence>>

\* The argument of f.write is evaluated inside the with block, the file open.
ToJson ==
    /\ pc = "to_json"
    /\ json_text' = Bound(to_json(ValueOf(classification_result)))
    /\ pc' = "write"
    /\ UNCHANGED <<idx, strategy, error, expected, classifications, pages_content,
                   page_embeddings, similarity_threshold, document_classifications,
                   similarity, best_similarity, all_similarities, user_content,
                   accuracy, eval_idx, classification_result, file, embed_calls,
                   sim_computed, completion_calls,
                   completion, confidence>>

\* f.write(...) and the close at the end of the with block.
WriteFile ==
    /\ pc = "write"
    /\ file' = "complete"
    /\ pc' = "done"
    /\ UNCHANGED <<idx, strategy, error, expected, classifications, pages_content,
                   page_embeddings, similarity_threshold, document_classifications,
                   similarity, best_similarity, all_similarities, user_content,
                   accuracy, eval_idx, classification_result, json_text, embed_calls,
                   sim_computed, completion_calls,
                   completion, confidence>>

\* The write or the flush on close raises (disk full): the file stays as it is,
\* empty or with part of the text.
WriteFileFails ==
    /\ pc = "write"
    /\ file' \in {"empty", "partial"}
    /\ Failed("OSError")
    /\ UNCHANGED <<idx, strategy, expected, classifications, pages_content,
                   page_embeddings, similarity_threshold, document_classifications,
                   similarity, best_similarity, all_similarities, user_content,
                   accuracy, eval_idx, classification_result, json_text, embed_calls,
                   sim_computed, completion_calls,
                   completion, confidence>>

-----------------------------------------------------------------------------
(* The openai notebook *)

\* Labels the parsed response may carry.
Labels == {CategoryNames[j] : j \in 1..Len(CategoryNames)} \cup {Unclassified}

\* A label the model may answer with although no category of the registry has it:
\* the classification field of the response is a string, set by the model.
UnregisteredLabel == "Other"

\* Entries of a parsed response: the page numbers and labels are the model's.
ParsedEntries ==
    {Classification(p, l, One, <<>>) : p \in 1..MaxPages, l \in Labels}
        \cup {Classification(1, UnregisteredLabel, One, <<>>)}

ParsedResponses == SeqsUpTo(ParsedEntries, MaxParsed)

\* Documents of MaxPages - 1 or MaxPages pages, a page image standing for its page.
PageImages == {[i \in 1..n |-> [page |-> i]] : n \in {MaxPages - 1, MaxPages}}

SystemInstruction == "classify each page of the document into one of the classifications"

InitOpenAI ==
    /\ strategy = "openai"
    /\ pc = "user_content"
    /\ error = ""
    /\ expected \in ExpectedSets(1)
    /\ classifications = Registry
    /\ pages_content \in PageImages
    /\ page_embeddings = <<>>
    /\ similarity_threshold = Zero
    /\ document_classifications = <<>>
    /\ idx = 0
    /\ similarity = Unbound
    /\ best_similarity = Unbound
    /\ all_similarities = Unbound
    /\ user_content = <<>>
    /\ accuracy = EmptyDict
    /\ eval_idx = 0
    /\ classification_result = Unbound
    /\ json_text = Unbound
    /\ file = "absent"
    /\ embed_calls = <<>>
    /\ sim_computed = {}
    /\ completion_calls = <<>>
    /\ completion = Unbound
    /\ confidence = Unbound

\* user_content starts with the text part carrying json.dumps(classifications)
\* (lines 257-264).
PrepareUserContent ==
    /\ pc = "user_content"
    /\ user_content' = <<[type |-> "text", content |-> <<classifications>>]>>
    /\ pc' = "images"
    /\ UNCHANGED <<idx, strategy, error, expected, classifications, pages_content,
                   page_embeddings, similarity_threshold, document_classifications,
                   similarity, best_similarity, all_similarities, accuracy, eval_idx,
                   classification_result, json_text, file, embed_calls, sim_computed,
                   completion_calls,
                   completion, confidence>>

\* The page image loop (mutant: each image is put in front of the earlier images)
AppendPageImagePrepended ==
    /\ pc = "images"
    /\ Len(user_content) - 1 < Len(pages_content)
    /\ user_content' = <<user_content[1],
                         [type |-> "image_url",
                          content |-> <<pages_content[Len(user_content)]>>]>>
                       \o Tail(user_content)
    /\ UNCHANGED <<idx, strategy, pc, error, expected, classifications, pages_content,
                   page_embeddings, similarity_threshold, document_classifications,
                   similarity, best_similarity, all_similarities, accuracy, eval_idx,
                   classification_result, json_text, file, embed_calls, sim_computed,
                   completion_calls,
                   completion, confidence>>

\* One iteration of the page image loop (lines 269-279).
AppendPageImage ==
    /\ pc = "images"
    /\ Len(user_content) - 1 < Len(pages_content)
    /\ user_content' = Append(user_content,
                              [type |-> "image_url",
                               content |-> <<pages_content[Len(user_content)]>>])
    /\ UNCHANGED <<idx, strategy, pc, error, expected, classifications, pages_content,
                   page_embeddings, similarity_threshold, document_classifications,
                   similarity, best_similarity, all_similarities, accuracy, eval_idx,
                   classification_result, json_text, file, embed_calls, sim_computed,
                   completion_calls,
                   completion, confidence>>

\* The image loop is exhausted; the completion cell starts (line 281).
PageImagesDone ==
    /\ pc = "images"
    /\ Len(user_content) - 1 = Len(pages_content)
    /\ pc' = "completion"
    /\ UNCHANGED <<idx, strategy, error, expected, classifications, pages_content,
                   page_embeddings, similarity_threshold, document_classifications,
                   similarity, best_similarity, all_similarities, user_content,
                   accuracy, eval_idx, classification_result, json_text, file,
                   embed_calls, sim_computed, completion_calls,
                   completion, confidence>>

CompletionRequest == [system |-> SystemInstruction, user |-> user_content]

\* Linear probabilities exp(logprob), in hundredths, that the tokens of a label
\* may combine to.
LabelProbabilities == {0, 99}

\* What a response holds for the label of one entry: the combined probability of
\* its tokens, or nothing usable.
LogprobData == {Unbound} \cup {Bound(p) : p \in LabelProbabilities}

\* Responses whose parsed set is one of parsed_sets and whose log-probability
\* data for each entry is one of data.
ResponsesOver(parsed_sets, data) ==
    UNION {{[parsed |-> d, logprobs |-> l] : l \in [1..Len(d) -> data]} :
              d \in parsed_sets}

\* Responses with any parsed set, every label with usable log-probability data.
CompletionResponses == ResponsesOver(ParsedResponses, {Bound(99)})

\* Labels of the responses whose log-probability data varies.
VisionLabels == {CategoryNames[1], Unclassified}

\* Parsed sets with one entry per page 1..n, in page order.
VisionParsed ==
    UNION {{[i \in 1..n |-> Classification(i, l[i], One, <<>>)] :
               l \in [1..n -> VisionLabels]} : n \in 0..MaxParsed}

\* Responses with any log-probability data, usable or not, for each entry.
VisionResponses == ResponsesOver(VisionParsed, LogprobData)

\* completions.parse returns one of responses and message.parsed is taken as the
\* produced set (lines 282-301, 311); the accuracy cell starts (line 329).
CompleteWith(responses) ==
    /\ pc = "completion"
    /\ completion_calls' = Append(completion_calls, CompletionRequest)
    /\ \E response \in responses :
          /\ completion' = Bound(response)
          /\ document_classifications' = response.parsed
    /\ pc' = "accuracy"
    /\ accuracy' = EmptyDict
    /\ eval_idx' = 0
    /\ UNCHANGED <<idx, strategy, error, expected, classifications, pages_content,
                   page_embeddings, similarity_threshold, similarity, best_similarity,
                   all_similarities, user_content, classification_result, json_text,
                   file, embed_calls, sim_computed, confidence>>

Complete == CompleteWith(CompletionResponses)

\* The completion cell, the response being any of VisionResponses.
VisionComplete == CompleteWith(VisionResponses)

\* completions.parse raises (network, auth, a response that does not parse).
CompletionFails ==
    /\ pc = "completion"
    /\ completion_calls' = Append(completion_calls, CompletionRequest)
    /\ Failed("ProviderError")
    /\ UNCHANGED <<idx, strategy, expected, classifications, pages_content,
                   page_embeddings, similarity_threshold, document_classifications,
                   similarity, best_similarity, all_similarities, user_content,
                   accuracy, eval_idx, classification_result, json_text, file,
                   embed_calls, sim_computed,
                   completion, confidence>>

-----------------------------------------------------------------------------
(* Specification *)

Init == InitEmbeddings \/ InitOpenAI

Next ==
    \/ EmbedClassification
    \/ EmbedClassificationsDone
    \/ EmbedPage
    \/ EmbeddingFails
    \/ EmbedPagesDone
    \/ ClassifyPage
    \/ ClassifyDone
    \/ PrepareUserContent
    \/ AppendPageImage
    \/ PageImagesDone
    \/ Complete
    \/ CompletionFails
    \/ AccuracyPage
    \/ AccuracyOverall
    \/ EvaluateConfidence
    \/ BuildResult
    \/ OpenFile
    \/ OpenFileFails
    \/ ToJson
    \/ WriteFile
    \/ WriteFileFails

Spec == Init /\ [][Next]_vars

-----------------------------------------------------------------------------
(* The embeddings notebook run with get_embedding replaced by a fixed table
   (a mocked provider): every text has one embedding, the empty text the empty
   embedding. *)

\* Longest document of the mocked runs.
MockPages == 4

\* State before the first cell of the embeddings notebook, mocked provider.
InitMock ==
    /\ strategy = "embeddings"
    /\ pc = "embed_classifications"
    /\ error = ""
    /\ expected \in {ExpectedSet(0, MockPages, pattern) : pattern \in {"allA", "alternating"}}
    /\ classifications = Registry
    /\ pages_content \in SeqsUpTo(MockTexts, MockPages)
    /\ page_embeddings = <<>>
    /\ similarity_threshold \in MockThresholds
    /\ document_classifications = <<>>
    /\ idx = 0
    /\ similarity = Unbound
    /\ best_similarity = Unbound
    /\ all_similarities = Unbound
    /\ user_content = <<>>
    /\ accuracy = EmptyDict
    /\ eval_idx = 0
    /\ classification_result = Unbound
    /\ json_text = Unbound
    /\ file = "absent"
    /\ embed_calls = <<>>
    /\ sim_computed = {}
    /\ completion_calls = <<>>
    /\ completion = Unbound
    /\ confidence = Unbound

\* One iteration of the category embedding loop (lines 329-331), mocked provider.
MockEmbedClassification ==
    /\ pc = "embed_classifications"
    /\ NextCategory <= Len(classifications)
    /\ LET j == NextCategory
           combined_text == classifications[j].keywords
       IN /\ embed_calls' = Append(embed_calls, combined_text)
          /\ classifications' =
                [classifications EXCEPT ![j].embedding = Bound(MockEmbedding(combined_text))]
    /\ UNCHANGED <<idx, strategy, pc, error, expected, pages_content, page_embeddings,
                   similarity_threshold, document_classifications, similarity,
                   best_similarity, all_similarities, user_content, accuracy, eval_idx,
                   classification_result, json_text, file, sim_computed,
                   completion_calls,
                   completion, confidence>>

\* One iteration of the page embedding loop (lines 351-353), mocked provider.
MockEmbedPage ==
    /\ pc = "embed_pages"
    /\ Len(page_embeddings) < Len(pages_content)
    /\ LET text == pages_content[Len(page_embeddings) + 1]
       IN /\ embed_calls' = Append(embed_calls, text)
          /\ page_embeddings' = Append(page_embeddings, MockEmbedding(text))
    /\ UNCHANGED <<idx, strategy, pc, error, expected, classifications, pages_content,
                   similarity_threshold, document_classifications, similarity,
                   best_similarity, all_similarities, user_content, accuracy, eval_idx,
                   classification_result, json_text, file, sim_computed,
                   completion_calls,
                   completion, confidence>>

NextMock ==
    \/ MockEmbedClassification
    \/ EmbedClassificationsDone
    \/ MockEmbedPage
    \/ EmbedPagesDone
    \/ ClassifyPage
    \/ ClassifyDone
    \/ AccuracyPage
    \/ AccuracyOverall
    \/ BuildResult
    \/ OpenFile
    \/ OpenFileFails
    \/ ToJson
    \/ WriteFile
    \/ WriteFileFails

SpecMock == InitMock /\ [][NextMock]_vars

-----------------------------------------------------------------------------
(* The embedding, matrix and classification cells of the embeddings notebook
   over embeddings of several norms, the zero vector among them, for pages
   and for categories alike. *)

\* Longest document of these runs.
CosinePages == 2

InitCosine ==
    /\ strategy = "embeddings"
    /\ pc = "embed_classifications"
    /\ error = ""
    /\ expected = ExpectedSet(0, CosinePages, "allA")
    /\ classifications = Registry
    /\ pages_content \in SeqsUpTo({"x y x"}, CosinePages)
    /\ page_embeddings = <<>>
    /\ similarity_threshold = DefaultThreshold
    /\ document_classifications = <<>>
    /\ idx = 0
    /\ similarity = Unbound
    /\ best_similarity = Unbound
    /\ all_similarities = Unbound
    /\ user_content = <<>>
    /\ accuracy = EmptyDict
    /\ eval_idx = 0
    /\ classification_result = Unbound
    /\ json_text = Unbound
    /\ file = "absent"
    /\ embed_calls = <<>>
    /\ sim_computed = {}
    /\ completion_calls = <<>>
    /\ completion = Unbound
    /\ confidence = Unbound

CosineEmbedClassification == EmbedClassificationFrom(CosineVectors)

CosineEmbedPage == EmbedPageFrom(CosineVectors)

NextCosine ==
    \/ CosineEmbedClassification
    \/ EmbedClassificationsDone
    \/ CosineEmbedPage
    \/ EmbedPagesDone
    \/ ClassifyPage
    \/ ClassifyDone

SpecCosine == InitCosine /\ [][NextCosine]_vars

-----------------------------------------------------------------------------
(* The vision notebook, the responses being those whose log-probability data
   varies from entry to entry. *)

NextVision ==
    \/ PrepareUserContent
    \/ AppendPageImage
    \/ PageImagesDone
    \/ VisionComplete
    \/ CompletionFails
    \/ AccuracyPage
    \/ AccuracyOverall
    \/ EvaluateConfidence
    \/ BuildResult
    \/ OpenFile
    \/ OpenFileFails
    \/ ToJson
    \/ WriteFile
    \/ WriteFileFails

SpecVision == InitOpenAI /\ [][NextVision]_vars

-----------------------------------------------------------------------------
(* Properties of the similarity classifier *)

\* Positions of the run after the classification loop ran to its end.
AfterClassification ==
    {"accuracy", "build_result", "open_file", "to_json", "write", "done"}

\* The entries stored so far by the classification loop of the embeddings run.
StoredPages ==
    IF strategy = "embeddings" THEN 1..Len(document_classifications) ELSE {}

EmbeddingOfEntry(i) == page_embeddings[i]

Categories == 1..Len(classifications)

\* Similarities of the page of entry i to every category, from the embeddings.
SimilaritiesOfEntry(i) ==
    [j \in Categories |->
        CosineValues[<<EmbeddingOfEntry(i), ValueOf(classifications[j].embedding)>>]]

\* The greatest of the similarities sims.
Greatest(sims) ==
    CHOOSE m \in {sims[j] : j \in DOMAIN sims} :
        \A j \in DOMAIN sims : FLessEq(sims[j], m)

\* Names of the categories that reach the greatest of the similarities sims.
BestCategoryNames(sims) ==
    LET m == Greatest(sims)
    IN {classifications[j].classification : j \in {k \in DOMAIN sims : sims[k] = m}}

\* C1: threshold gating.  For every stored page with a non-empty embedding the
\* label is the name of a category of maximum similarity exactly when that
\* maximum is >= the threshold (equality included), and "Unclassified"
\* otherwise.
C1_ThresholdGating ==
    \A i \in StoredPages :
        EmbeddingOfEntry(i) # <<>> =>
            LET label == document_classifications[i].classification
                sims == SimilaritiesOfEntry(i)
                met == FLessEq(similarity_threshold, Greatest(sims))
            IN /\ (label \in BestCategoryNames(sims)) <=> met
               /\ ~met => label = Unclassified

\* C1 witness: one page whose best similarity equals the threshold carries a
\* category name, and another page below the threshold is "Unclassified".
C1_Witness ==
    \E i, k \in StoredPages :
        /\ EmbeddingOfEntry(i) # <<>> /\ EmbeddingOfEntry(k) # <<>>
        /\ Greatest(SimilaritiesOfEntry(i)) = similarity_threshold
        /\ document_classifications[i].classification
              \in BestCategoryNames(SimilaritiesOfEntry(i))
        /\ FLess(Greatest(SimilaritiesOfEntry(k)), similarity_threshold)
        /\ document_classifications[k].classification = Unclassified

\* C2: for every stored page with a non-empty embedding the stored score is the
\* greatest similarity over all categories, whatever the threshold and whether
\* or not it was met.
C2_ScoreIsBestSimilarity ==
    \A i \in StoredPages :
        EmbeddingOfEntry(i) # <<>> =>
            document_classifications[i].similarity = Greatest(SimilaritiesOfEntry(i))

\* C2 witness: a page that missed the threshold keeps its positive best
\* similarity as score, which differs from the first category's similarity.
C2_Witness ==
    \E i \in StoredPages :
        /\ EmbeddingOfEntry(i) # <<>>
        /\ document_classifications[i].classification = Unclassified
        /\ LET sims == SimilaritiesOfEntry(i)
           IN /\ FLess(Zero, Greatest(sims))
              /\ Greatest(sims) # sims[1]
              /\ document_classifications[i].similarity = Greatest(sims)

\* Page i of the document has no text, or its embedding is empty.
EmptyPage(i) == pages_content[i] = "" \/ EmbeddingOfEntry(i) = <<>>

\* C3 (as claimed): every stored page whose text is empty or whose embedding is
\* empty has score 0.0 and an empty all_scores.
C3_EmptyPageZeroScore ==
    \A i \in StoredPages :
        EmptyPage(i) =>
            /\ document_classifications[i].similarity = Zero
            /\ document_classifications[i].all_similarities = <<>>

\* C4 (as claimed): every stored page whose text is empty or whose embedding
\* is empty is labelled "Unclassified", and cosine_similarity is called for no
\* such page.
C4_EmptyPageUnclassifiedNoSimilarity ==
    /\ \A i \in StoredPages :
          EmptyPage(i) => document_classifications[i].classification = Unclassified
    /\ \A p \in sim_computed :
          strategy = "embeddings" => ~EmptyPage(p + 1)

\* C5 (as claimed): a page without text or with an empty embedding never aborts the
\* classification run: no run stops inside the classification loop, and once
\* the loop is over every page has been classified.
C5_EmptyPageNeverAborts ==
    strategy = "embeddings" =>
        /\ ~(pc = "failed" /\ error = "NameError")
        /\ pc \in AfterClassification =>
              Len(document_classifications) = Len(pages_content)

\* C6: the i-th stored entry has page_number i (0-indexed); while the loop runs
\* the set holds as many entries as pages were processed; after the loop it
\* holds exactly one entry per page.
C6_OneEntryPerPageInOrder ==
    strategy = "embeddings" =>
        /\ \A i \in 1..Len(document_classifications) :
              document_classifications[i].page_number = i - 1
        /\ Len(document_classifications) = idx
        /\ pc \in AfterClassification =>
              /\ Len(document_classifications) = Len(pages_content)
              /\ Len(page_embeddings) = Len(pages_content)

\* C6 witness: the loop completed over a document of MaxPages pages, one of
\* them with an empty embedding.
C6_Witness ==
    /\ strategy = "embeddings"
    /\ pc \in AfterClassification
    /\ Len(document_classifications) = MaxPages
    /\ \E i \in StoredPages : EmbeddingOfEntry(i) = <<>>

-----------------------------------------------------------------------------
(* Properties of the accuracy computation *)

OverallKey == StrKey("overall")

\* The per-page keys of the accuracy dict.
PageKeys == {k \in DOMAIN accuracy : k.kind = "int"}

\* Entry i of the actual set matches the expected label of its page.
Matches(i) ==
    LET entry == document_classifications[i]
    IN /\ HasClassification(expected, entry.page_number)
       /\ get_classification(expected, entry.page_number).classification
             = entry.classification

\* Entry i of the actual set has a page the expected set holds under another label.
Mismatches(i) ==
    LET entry == document_classifications[i]
    IN /\ HasClassification(expected, entry.page_number)
       /\ get_classification(expected, entry.page_number).classification
             # entry.classification

\* Some entry of the actual set has a page number the expected set lacks.
SomePageNotExpected ==
    \E i \in 1..Len(document_classifications) :
        ~HasClassification(expected, document_classifications[i].page_number)

\* C7: every per-page entry is 0 or 1, and the overall entry, once inserted,
\* is the sum of the per-page entries divided by their number: the overall
\* key takes no part in its own computation.
C7_OverallIsMeanOfPages ==
    /\ \A k \in PageKeys : accuracy[k] \in {IntVal(0), IntVal(1)}
    /\ OverallKey \in DOMAIN accuracy =>
          /\ PageKeys # {}
          /\ accuracy[OverallKey] = TrueDiv(SumOver(accuracy, PageKeys),
                                            Cardinality(PageKeys))

\* C7 witness: a report over two or more pages, half of them correct.
C7_Witness ==
    /\ OverallKey \in DOMAIN accuracy
    /\ Cardinality(PageKeys) >= 2
    /\ accuracy[OverallKey] = TrueDiv(1, 2)

\* C8: a page number of the actual set that the expected set lacks is never
\* given an accuracy entry; the run that meets one stops with the not-found
\* error, and no report with an overall entry, and no result file, exists for
\* a run whose actual set holds such a page.
C8_MissingExpectedPageFails ==
    /\ \A k \in PageKeys : HasClassification(expected, k.n)
    /\ SomePageNotExpected =>
          /\ OverallKey \notin DOMAIN accuracy
          /\ pc \notin {"build_result", "open_file", "to_json", "write", "done"}
          /\ file = "absent"
          /\ pc = "failed" => error = "NotFoundError"

\* C8 witness: the accuracy loop scored one page and stopped with the
\* not-found error at the next one.
C8_Witness ==
    /\ pc = "failed"
    /\ error = "NotFoundError"
    /\ PageKeys # {}
    /\ ~HasClassification(expected,
                          document_classifications[eval_idx + 1].page_number)

\* C9: when every entry of the actual set carries the expected label of its
\* page the overall entry is 1.0; when every entry carries another label than
\* expected it is 0.0.
C9_IdenticalAndMismatch ==
    OverallKey \in DOMAIN accuracy =>
        /\ (\A i \in 1..Len(document_classifications) : Matches(i))
              => accuracy[OverallKey] = TrueDiv(1, 1)
        /\ (\A i \in 1..Len(document_classifications) : Mismatches(i))
              => accuracy[OverallKey] = TrueDiv(0, 1)

\* C9 witness: the actual set has the page numbers and the labels of the
\* expected set, page by page, and overall is 1.0.
C9_Witness ==
    /\ OverallKey \in DOMAIN accuracy
    /\ Len(document_classifications) = Len(expected)
    /\ Len(expected) >= 2
    /\ \A i \in 1..Len(expected) :
          /\ document_classifications[i].page_number = expected[i].page_number
          /\ document_classifications[i].classification = expected[i].classification
    /\ accuracy[OverallKey] = TrueDiv(1, 1)

-----------------------------------------------------------------------------
(* Properties of the run as a whole *)

\* C10 (as claimed): a result file, empty, partial or complete, exists only
\* once classification, evaluation and the serialization of the record have
\* succeeded, and never in a state in which the run has failed.
C10_WriteAfterSuccess ==
    /\ file # "absent" =>
          /\ OverallKey \in DOMAIN accuracy
          /\ classification_result.bound
          /\ json_text.bound
    /\ pc = "failed" => file = "absent"

\* C11: a failure of the embedding provider or of the completion provider stops
\* the run with that error: no classification, accuracy entry, record or file
\* exists in the stopped run, and the failed call was made once, every call of
\* the run being either one stored embedding or the one failure (no retry).
C11_ProviderFailureAborts ==
    /\ error = "ProviderError" =>
          /\ pc = "failed"
          /\ document_classifications = <<>>
          /\ DOMAIN accuracy = {}
          /\ ~classification_result.bound
          /\ ~json_text.bound
          /\ file = "absent"
    /\ strategy = "embeddings" =>
          Len(embed_calls) = (NextCategory - 1) + Len(page_embeddings)
                                + (IF error = "ProviderError" THEN 1 ELSE 0)
    /\ strategy = "openai" =>
          /\ Len(completion_calls) <= 1
          /\ error = "ProviderError" => Len(completion_calls) = 1

\* C11 witness: the provider failed on a page after the categories and an
\* earlier page had been embedded.
C11_Witness ==
    /\ strategy = "embeddings"
    /\ pc = "failed"
    /\ error = "ProviderError"
    /\ Len(page_embeddings) >= 1
    /\ Len(page_embeddings) < Len(pages_content)

\* C12: the entry stored for a page depends only on the page's embedding (the
\* category embeddings and the threshold being those of the run): two pages of
\* one run with equal embeddings are stored with the same label, score and
\* all_similarities, whatever pages were processed before each of them.
C12_PageIndependence ==
    \A i, j \in StoredPages :
        EmbeddingOfEntry(i) = EmbeddingOfEntry(j) =>
            /\ document_classifications[i].classification =
                  document_classifications[j].classification
            /\ document_classifications[i].similarity =
                  document_classifications[j].similarity
            /\ document_classifications[i].all_similarities =
                  document_classifications[j].all_similarities

\* 0.9, the similarity the mocked embeddings give a text and its category.
MockSimilarity == Decimal(9, 10)

\* C13: categories A and B, page texts "x y x", "p q p", "", threshold 0.4 and
\* the mocked embeddings (similarities 0.9/0.1 and 0.1/0.9, empty embedding for
\* the empty page) give page 0 label A score 0.9, page 1 label B score 0.9,
\* page 2 label "Unclassified" score 0.0.
C13_EndToEndExample ==
    (/\ pages_content = <<"x y x", "p q p", "">>
     /\ similarity_threshold = DefaultThreshold
     /\ pc \in AfterClassification) =>
        /\ Len(document_classifications) = 3
        /\ LET entry(i) == document_classifications[i]
           IN /\ entry(1).page_number = 0 /\ entry(1).classification = "A"
              /\ entry(1).similarity = MockSimilarity
              /\ entry(2).page_number = 1 /\ entry(2).classification = "B"
              /\ entry(2).similarity = MockSimilarity
              /\ entry(3).page_number = 2 /\ entry(3).classification = Unclassified
              /\ entry(3).similarity = Zero

\* C14: a run of the vision notebook issues at most one completion request,
\* exactly one once the completion cell has run, and that request carries the
\* system instruction, the whole category registry as its text part, and after
\* it one image per page of the document in page order.
C14_SingleCompletionRequest ==
    strategy = "openai" =>
        /\ Len(completion_calls) <= 1
        /\ pc \in AfterClassification => Len(completion_calls) = 1
        /\ \A c \in 1..Len(completion_calls) :
              LET request == completion_calls[c]
              IN /\ request.system = SystemInstruction
                 /\ Len(request.user) = 1 + Len(pages_content)
                 /\ request.user[1] = [type |-> "text", content |-> <<classifications>>]
                 /\ \A i \in 1..Len(pages_content) :
                       request.user[i + 1] =
                          [type |-> "image_url", content |-> <<pages_content[i]>>]

\* C14 witness: a vision run over a document of MaxPages pages has finished
\* after its one request.
C14_Witness ==
    /\ strategy = "openai"
    /\ pc = "done"
    /\ Len(pages_content) = MaxPages
    /\ Len(completion_calls) = 1

\* C15: in both strategies every entry of the produced set carries one label,
\* and the label is the name of a category of the registry or "Unclassified".
C15_LabelIsRegisteredOrUnclassified ==
    \A i \in 1..Len(document_classifications) :
        document_classifications[i].classification \in Labels

\* A set of classifications with every score and every all_similarities erased.
WithoutScores(set) ==
    [i \in 1..Len(set) |-> Classification(set[i].page_number, set[i].classification,
                                          0, <<>>)]

\* The per-page part of the report of the first n entries of the actual set act
\* against the expected set exp.
RECURSIVE PageReport(_, _, _)
PageReport(exp, act, n) ==
    IF n = 0 THEN EmptyDict
    ELSE DictSet(PageReport(exp, act, n - 1), IntKey(act[n].page_number),
                 IntVal(AccuracyEntry(exp, act[n]).value))

\* The accuracy report of act against exp.
ReportOf(exp, act) ==
    LET pages == PageReport(exp, act, Len(act))
    IN DictSet(pages, OverallKey, Overall(pages))

\* C16: the finished accuracy report is the report of the page numbers and
\* labels alone: it equals the report computed from the expected and the actual
\* set with every score and all_similarities erased.
C16_ReportIgnoresScores ==
    OverallKey \in DOMAIN accuracy =>
        accuracy = ReportOf(WithoutScores(expected),
                            WithoutScores(document_classifications))

\* C16 witness: a finished report scores 1 a page whose stored similarity is not
\* the similarity of the expected entry of that page.
C16_Witness ==
    /\ OverallKey \in DOMAIN accuracy
    /\ \E i \in 1..Len(document_classifications) :
          LET entry == document_classifications[i]
          IN /\ Matches(i)
             /\ accuracy[IntKey(entry.page_number)] = IntVal(1)
             /\ get_classification(expected, entry.page_number).similarity
                   # entry.similarity

\* C18: in the confidence report an entry whose label has no usable
\* log-probability data carries the undefined value, never 0; an entry carrying
\* 0 has data that determine 0; and once the report exists the run goes on to
\* persist the result, failing only if the file cannot be written.
C18_UndefinedConfidenceExplicit ==
    confidence.bound =>
        /\ \A i \in 1..Len(document_classifications) :
              LET data == ValueOf(completion).logprobs[i]
                  stored == ValueOf(confidence)[i].confidence
              IN /\ ~data.bound => stored = NaN
                 /\ stored = Float(0) => data = Bound(0)
        /\ pc = "failed" => error = "OSError"

\* C18 witness: a finished vision run whose report has an undefined confidence
\* for one page and the determined confidence 0 for another.
C18_Witness ==
    /\ strategy = "openai"
    /\ pc = "done"
    /\ confidence.bound
    /\ \E i, j \in 1..Len(document_classifications) :
          /\ ValueOf(confidence)[i].confidence = NaN
          /\ ValueOf(confidence)[j].confidence = Float(0)

\* C19: the serialized result record, deserialized, is the record that was
\* serialized: the same classification entries with their scores and
\* all_similarities, the same accuracy keys (int page numbers and the str
\* "overall") with the same values, the same execution_time.
C19_JsonRoundTrip ==
    json_text.bound =>
        json_loads(ValueOf(json_text)) = ValueOf(classification_result)

\* C20: the all_similarities of every stored page with a non-empty embedding
\* has one entry per category of the registry, in the registry's order, entry j
\* holding the name of category j and (as str) the cosine similarity of the
\* page's embedding to the embedding of category j.
C20_AllSimilaritiesInRegistryOrder ==
    \A i \in StoredPages :
        EmbeddingOfEntry(i) # <<>> =>
            LET sims == SimilaritiesOfEntry(i)
                all_sims == document_classifications[i].all_similarities
            IN /\ Len(all_sims) = Len(classifications)
               /\ \A j \in Categories :
                     /\ all_sims[j].classification = classifications[j].classification
                     /\ all_sims[j].similarity = Str(sims[j])

\* C20 witness: a stored page whose similarity to the second category of the
\* registry is greater than its similarity to the first.
C20_Witness ==
    \E i \in StoredPages :
        /\ EmbeddingOfEntry(i) # <<>>
        /\ Len(classifications) >= 2
        /\ FLess(SimilaritiesOfEntry(i)[1], SimilaritiesOfEntry(i)[2])
        /\ Len(document_classifications[i].all_similarities) = Len(classifications)

\* The embeddings a run holds: those of its pages and of its categories.
EmbeddingsOfRun ==
    {page_embeddings[i] : i \in {k \in 1..Len(page_embeddings) : page_embeddings[k] # <<>>}}
        \cup {ValueOf(classifications[j].embedding) :
                 j \in {k \in Categories : classifications[k].embedding.bound}}

\* C21 (as claimed): over the embeddings of a run, cosine_similarity gives the
\* same value with its operands exchanged, 1 for a vector of non-zero norm and
\* itself, and 0 when either vector has zero norm; and no run stops in the
\* similarity computation.
C21_CosineSimilarity ==
    /\ \A a, b \in EmbeddingsOfRun :
          /\ CosineValues[<<a, b>>] = CosineValues[<<b, a>>]
          /\ NormValues[a] # Zero => CosineValues[<<a, a>>] = One
          /\ (NormValues[a] = Zero \/ NormValues[b] = Zero) =>
                CosineValues[<<a, b>>] = Zero
    /\ pc # "failed"

\* C22: the embedding calls of a run of the embeddings notebook are, in order,
\* one per category of the registry and then one per page; all of them have been
\* made when the classification loop starts, and the loop adds none: from its
\* start on the run has made exactly c + n calls.
C22_EmbeddingCalls ==
    strategy = "embeddings" =>
        LET c == Len(classifications)
            n == Len(pages_content)
        IN /\ Len(embed_calls) <= c + n
           /\ \A k \in 1..Len(embed_calls) :
                 embed_calls[k] = IF k <= c THEN classifications[k].keywords
                                  ELSE pages_content[k - c]
           /\ (\/ pc \in {"classify"} \cup AfterClassification
               \/ document_classifications # <<>>
               \/ pc = "failed" /\ error # "ProviderError") =>
                 /\ Len(embed_calls) = c + n
                 /\ \A j \in Categories : classifications[j].embedding.bound

\* C22 witness: a finished run over MaxPages pages, every page classified.
C22_Witness ==
    /\ strategy = "embeddings"
    /\ pc = "done"
    /\ Len(pages_content) = MaxPages
    /\ Len(document_classifications) = MaxPages
    /\ Len(embed_calls) = Len(classifications) + MaxPages

\* The keys of a category dict: 'embedding' is a key once it has been assigned.
FieldsOf(category) ==
    {"classification", "keywords"}
        \cup (IF category.embedding.bound THEN {"embedding"} ELSE {})

\* C23: no step of a run changes a category of the registry (its name, its
\* keywords, its set of fields) or the expected set, and a step that changes
\* the produced set either creates it (the completion cell) or appends one
\* entry to it inside the classification loop.
C23_Immutability ==
    [][/\ \A j \in Categories :
             /\ classifications'[j].classification = classifications[j].classification
             /\ classifications'[j].keywords = classifications[j].keywords
             /\ FieldsOf(classifications'[j]) = FieldsOf(classifications[j])
       /\ expected' = expected
       /\ document_classifications' # document_classifications =>
             \/ pc = "completion"
             \/ /\ pc = "classify"
                /\ Len(document_classifications') = Len(document_classifications) + 1
                /\ SubSeq(document_classifications', 1, Len(document_classifications))
                      = document_classifications]_vars

\* C24: a stored page with a non-empty embedding that is given a category is
\* given the first category, in registry order, among those whose similarity
\* to the page is the greatest.
C24_FirstOfEqualMaxima ==
    \A i \in StoredPages :
        (/\ EmbeddingOfEntry(i) # <<>>
         /\ document_classifications[i].classification # Unclassified) =>
            LET sims == SimilaritiesOfEntry(i)
                greatest == Greatest(sims)
                first == CHOOSE j \in Categories :
                            /\ sims[j] = greatest
                            /\ \A k \in Categories : k < j => FLess(sims[k], greatest)
            IN document_classifications[i].classification
                  = classifications[first].classification

\* C24 witness: a stored page to which two categories are equally and most
\* similar, labelled with the first of them.
C24_Witness ==
    \E i \in StoredPages :
        /\ EmbeddingOfEntry(i) # <<>>
        /\ Len(classifications) >= 2
        /\ SimilaritiesOfEntry(i)[1] = SimilaritiesOfEntry(i)[2]
        /\ document_classifications[i].classification = classifications[1].classification

\* C25: a run whose produced set is empty never gets an overall entry, a result
\* record or a result file: it does not pass the accuracy cell, where it stops
\* with the division-by-zero error; and that error stops no other run.
C25_EmptyActualSetFails ==
    /\ document_classifications = <<>> =>
          /\ OverallKey \notin DOMAIN accuracy
          /\ pc \notin {"build_result", "open_file", "to_json", "write", "done"}
          /\ ~classification_result.bound
          /\ file = "absent"
    /\ error = "ZeroDivisionError" =>
          /\ pc = "failed"
          /\ document_classifications = <<>>
          /\ accuracy = EmptyDict

\* C25 witness: the vision run over MaxPages pages whose response is empty has
\* stopped with the division-by-zero error.
C25_Witness ==
    /\ strategy = "openai"
    /\ Len(pages_content) = MaxPages
    /\ Len(completion_calls) = 1
    /\ document_classifications = <<>>
    /\ pc = "failed"
    /\ error = "ZeroDivisionError"

\* The last entry of the produced set that carries page number p.
LastEntryOf(p) ==
    document_classifications[
        CHOOSE i \in 1..Len(document_classifications) :
            /\ document_classifications[i].page_number = p
            /\ \A j \in (i + 1)..Len(document_classifications) :
                  document_classifications[j].page_number # p]

\* C26: a finished report has one per-page entry for each distinct page number
\* of the produced set, holding the indicator of the last entry with that page
\* number, and its overall entry is the mean over those per-page entries.
C26_RepeatedPageNumbers ==
    OverallKey \in DOMAIN accuracy =>
        /\ PageKeys = {IntKey(document_classifications[i].page_number) :
                          i \in 1..Len(document_classifications)}
        /\ \A k \in PageKeys :
              accuracy[k] =
                 IntVal(Indicator(get_classification(expected, k.n).classification,
                                  LastEntryOf(k.n).classification))
        /\ accuracy[OverallKey] = TrueDiv(SumOver(accuracy, PageKeys),
                                          Cardinality(PageKeys))

\* C26 witness: a finished report of a vision run whose response names one page
\* twice, first with a wrong and then with the expected label: one per-page
\* entry, overall 1.0.
C26_Witness ==
    /\ strategy = "openai"
    /\ OverallKey \in DOMAIN accuracy
    /\ Len(document_classifications) = 2
    /\ document_classifications[1].page_number = document_classifications[2].page_number
    /\ ~Matches(1)
    /\ Matches(2)
    /\ Cardinality(PageKeys) = 1
    /\ accuracy[OverallKey] = TrueDiv(1, 1)

=============================================================================
